---- MODULE Spec2Model ----
(***************************************************************************)
(* Model of the remote I2C protocol: I2CClient (i2c_client.py) talking to  *)
(* I2CServer (i2c_server.py) over TCP connections.                         *)
(*                                                                         *)
(* A TCP connection is two byte streams.  The client-to-server stream is   *)
(* a sequence of units; one unit stands for a run of at most UnitBytes     *)
(* bytes of JSON text, so that the server's recv(1024) takes at most       *)
(* RecvBuf units.  The server-to-client stream is a sequence of units too: the     *)
(* four bytes of the length prefix are one unit each (with their value),   *)
(* the JSON body is BodyUnits units.  A recv returns any non-empty prefix  *)
(* of what is available, up to the size asked for.                         *)
(***************************************************************************)
EXTENDS Integers, Sequences, FiniteSets, TLC

\* ------------------------------------------------------------- bounds
MaxOps == 2        \* operations the caller invokes on the client object
MaxSyncOps == 3    \* the same, where the caller uses only SyncOps
MaxResetOps == 3   \* the same, where the caller uses only ResetOps
MaxPairOps == 1    \* the same, where the caller uses only PairOps
MaxStaleOps == 3   \* the same, where the caller uses only StaleOps
MaxConn == 2       \* TCP connections opened towards the server
MaxRaw == 1        \* messages a raw (non-I2CClient) peer sends
MaxHandlerCalls == 3   \* calls of the methods of I2CDeviceHandler

UnitBytes == 512   \* bytes of JSON text one unit of a stream stands for
BodyUnits == 2     \* units of a response body (a body is never empty)

\* ------------------------------------------------- program constants
RecvBufBytes == 1024     \* client_socket.recv(1024)
RecvChunkBytes == 4096   \* self.socket.recv(min(4096, ...))
PrefixLen == 4           \* self.socket.recv(4), struct.pack('!I', ...)
ScanFirst == 3           \* range(0x03, 0x78)
ScanStop == 120

\* the two receive sizes in units
RecvBuf == RecvBufBytes \div UnitBytes

RecvChunk == RecvChunkBytes \div UnitBytes

\* ------------------------------------------------------------ helpers
Min(a, b) == IF a < b THEN a ELSE b

Take(s, n) == SubSeq(s, 1, n)

Drop(s, n) == SubSeq(s, n + 1, Len(s))

\* ------------------------------------------------------------- values
\* what a driver read may return
ReadVals == {23, 200}
\* the sets of addresses that acknowledge during one command
AckSets == {{}, {80, 96}, {2, 3, 119, 120}}

NoData == <<>>

\* A command dictionary: keys is the set of keys the dict holds.
Command(t, ks, a, r, v, d, l) ==
    [keys |-> ks, type |-> t, address |-> a, register |-> r, value |-> v,
     data |-> d, length |-> l]

NoCommand == Command("", {}, 0, 0, 0, NoData, 0)

\* ------------------------------------------------------- the bus driver
\* One driver call and its outcome (ok = FALSE: the call raised).
Call(fn, a, r, v, d, l, ok, ret, rd) ==
    [fn |-> fn, address |-> a, register |-> r, value |-> v, data |-> d,
     length |-> l, ok |-> ok, ret |-> ret, retdata |-> rd]

NoCall == Call("", 0, 0, 0, NoData, 0, FALSE, 0, NoData)

DriverFault == "[Errno 121] Remote I/O error"

\* a driver whose closed handle still transfers
DriverOkAnyHandle(bus, acks, a) == a \in acks

\* A transaction succeeds when the handle is open and the address acknowledges.
DriverOk(bus, acks, a) == bus = "open" /\ a \in acks

\* A response dictionary.  re and call are history fields, no part of the
\* JSON text: the number of the client operation whose command the response
\* answers (0: none) and the driver call that produced it.
Response(ks, st, v, d, devs, msg, err) ==
    [keys |-> ks, status |-> st, value |-> v, data |-> d, devices |-> devs,
     message |-> msg, error |-> err, re |-> 0, call |-> NoCall]

NoResponse == Response({}, "", 0, NoData, NoData, "", "")

Success == Response({"status"}, "success", 0, NoData, NoData, "", "")

SuccessValue(v) ==
    Response({"status", "value"}, "success", v, NoData, NoData, "", "")

SuccessData(d) ==
    Response({"status", "data"}, "success", 0, d, NoData, "", "")

SuccessDevices(devs) ==
    Response({"status", "devices"}, "success", 0, NoData, devs, "", "")

SuccessMessage(msg) ==
    Response({"status", "message"}, "success", 0, NoData, NoData, msg, "")

ErrorResponse(msg) ==
    Response({"status", "message"}, "error", 0, NoData, NoData, msg, "")

InvalidJson == Response({"error"}, "", 0, NoData, NoData, "", "Invalid JSON")

\* ---------------------------------------------------- process_command
\* The first of the fields a branch reads, in the order it reads them, that
\* the command lacks ("" when it has them all): command['x'] raises KeyError.
RECURSIVE FirstMissing(_, _)
FirstMissing(command, fields) ==
    IF fields = <<>> THEN ""
    ELSE IF Head(fields) \notin command.keys THEN Head(fields)
    ELSE FirstMissing(command, Tail(fields))

\* str(KeyError('address')) is "'address'"
KeyErrorText(field) == "'" \o field \o "'"

Outcome(resp, calls, bus) == [resp |-> resp, calls |-> calls, bus |-> bus]

\* A branch that reads `fields`, makes one driver call and answers `ok`.
OneCall(command, fields, call, ok, bus) ==
    LET missing == FirstMissing(command, fields) IN
    IF missing # "" THEN Outcome(ErrorResponse(KeyErrorText(missing)), <<>>, bus)
    ELSE IF ~call.ok THEN Outcome(ErrorResponse(DriverFault), <<call>>, bus)
    ELSE Outcome([ok EXCEPT !.call = call], <<call>>, bus)

\* for addr in range(0x03, 0x78): try read_byte(addr), append; except: pass
\* The loop visits range(0x03, 0x78) in order; the probes it makes and the
\* addresses it appends are that range mapped and filtered.
ScanRangeWide == [j \in 1..(ScanStop - ScanFirst + 1) |-> ScanFirst + j - 1]

ScanRange == [j \in 1..(ScanStop - ScanFirst) |-> ScanFirst + j - 1]

ScanProbe(bus, acks, addr) ==
    Call("read_byte", addr, 0, 0, NoData, 0, DriverOk(bus, acks, addr), 0, NoData)

\* a loop that a faulting probe ends
ScanLoopAbort(bus, acks) ==
    LET Present(addr) == ScanProbe(bus, acks, addr).ok
        faults == {j \in 1..Len(ScanRange) : ~Present(ScanRange[j])}
        made == IF faults = {} THEN Len(ScanRange)
                ELSE CHOOSE j \in faults : \A k \in faults : j <= k
    IN [devices |-> SelectSeq(SubSeq(ScanRange, 1, made), Present),
        calls |-> [j \in 1..made |-> ScanProbe(bus, acks, ScanRange[j])]]

ScanLoop(bus, acks) ==
    LET Present(addr) == ScanProbe(bus, acks, addr).ok IN
    [devices |-> SelectSeq(ScanRange, Present),
     calls |-> [j \in 1..Len(ScanRange) |-> ScanProbe(bus, acks, ScanRange[j])]]

\* command.get('type'), as the f-string prints it: None when there is no type
CmdType(command) == IF "type" \in command.keys THEN command.type ELSE "None"

UnknownCommandNoType(t, bus) ==
    Outcome(ErrorResponse("Unknown command type"), <<>>, bus)

\* the else branch (lines 176-177)
UnknownCommand(t, bus) ==
    Outcome(ErrorResponse("Unknown command type: " \o t), <<>>, bus)

ResetInterfaceKeep(bus, reopenOk) ==
    IF reopenOk
    THEN Outcome(SuccessMessage("I2C interface reset"), <<>>, bus)
    ELSE Outcome(ErrorResponse("Reset failed: " \o DriverFault), <<>>, bus)

\* the reset_interface branch (lines 162-174): the old handle is closed
\* first, then SMBus(bus_number) is opened; a failed reopen leaves self.bus
\* the closed handle
ResetInterface(bus, reopenOk) ==
    IF reopenOk
    THEN Outcome(SuccessMessage("I2C interface reset"), <<>>, "open")
    ELSE Outcome(ErrorResponse("Reset failed: " \o DriverFault), <<>>, "closed")

\* process_command(command): isDict is FALSE for a JSON value that is no
\* object; acks, v and reopenOk are what the driver does during this command.
ProcessCommand(command, isDict, bus, acks, v, reopenOk) ==
    LET a == command.address
        r == command.register
        t == CmdType(command)
    IN
    IF ~isDict
    THEN Outcome(ErrorResponse("object has no attribute 'get'"), <<>>, bus)
    ELSE CASE t = "write_byte" ->
              OneCall(command, <<"address", "value">>,
                      Call("write_byte", a, 0, command.value, NoData, 0,
                           DriverOk(bus, acks, a), 0, NoData),
                      Success, bus)
           [] t = "read_byte" ->
              OneCall(command, <<"address">>,
                      Call("read_byte", a, 0, 0, NoData, 0,
                           DriverOk(bus, acks, a), v, NoData),
                      SuccessValue(v), bus)
           [] t = "write_byte_data" ->
              OneCall(command, <<"address", "register", "value">>,
                      Call("write_byte_data", a, r, command.value, NoData, 0,
                           DriverOk(bus, acks, a), 0, NoData),
                      Success, bus)
           [] t = "read_byte_data" ->
              OneCall(command, <<"address", "register">>,
                      Call("read_byte_data", a, r, 0, NoData, 0,
                           DriverOk(bus, acks, a), v, NoData),
                      SuccessValue(v), bus)
           [] t = "write_word_data" ->
              OneCall(command, <<"address", "register", "value">>,
                      Call("write_word_data", a, r, command.value, NoData, 0,
                           DriverOk(bus, acks, a), 0, NoData),
                      Success, bus)
           [] t = "read_word_data" ->
              OneCall(command, <<"address", "register">>,
                      Call("read_word_data", a, r, 0, NoData, 0,
                           DriverOk(bus, acks, a), 256 * v + v, NoData),
                      SuccessValue(256 * v + v), bus)
           [] t = "write_i2c_block_data" ->
              OneCall(command, <<"address", "register", "data">>,
                      Call("write_i2c_block_data", a, r, 0, command.data, 0,
                           DriverOk(bus, acks, a), 0, NoData),
                      Success, bus)
           [] t = "read_i2c_block_data" ->
              LET rd == [j \in 1..command.length |-> v] IN
              OneCall(command, <<"address", "register", "length">>,
                      Call("read_i2c_block_data", a, r, 0, NoData, command.length,
                           DriverOk(bus, acks, a), 0, rd),
                      SuccessData(rd), bus)
           [] t = "scan" ->
              LET s == ScanLoop(bus, acks) IN
              Outcome(SuccessDevices(s.devices), s.calls, bus)
           [] t = "reset_interface" -> ResetInterface(bus, reopenOk)
           [] OTHER -> UnknownCommand(t, bus)

\* -------------------------------------------------------------- framing
\* struct.pack('!I', n): four bytes, most significant first
Pack32(n) ==
    <<(n \div 16777216) % 256, (n \div 65536) % 256, (n \div 256) % 256, n % 256>>

\* struct.unpack('!I', b)[0]
Unpack32(b) == ((b[1] * 256 + b[2]) * 256 + b[3]) * 256 + b[4]

\* A unit of the server-to-client stream: a prefix byte (b its value) or the
\* i-th unit of the JSON text of response r (b: its first byte, '{').
LenUnit(b) == [k |-> "len", b |-> b, r |-> NoResponse, i |-> 0]

BodyUnit(r, i) == [k |-> "body", b |-> 123, r |-> r, i |-> i]

\* json.dumps(result).encode('utf-8')
EncodeResponse(r) == [j \in 1..BodyUnits |-> BodyUnit(r, j)]

\* send(struct.pack('!I', len(response))) then send(response)
Frame(r) ==
    LET body == EncodeResponse(r)
        pre == Pack32(Len(body))
    IN [j \in 1..PrefixLen |-> LenUnit(pre[j])] \o body

\* json.loads(response_data.decode('utf-8')): the text of exactly one response
ValidBody(units) ==
    /\ Len(units) = BodyUnits
    /\ \A j \in 1..Len(units) :
          units[j].k = "body" /\ units[j].i = j /\ units[j].r = units[1].r

\* A unit of the client-to-server stream: the i-th of the n units of the JSON
\* text of a command (id: the client operation that sent it, 0 for a raw
\* peer), or bytes of a raw peer: "text" (UTF-8, no JSON), "bin" (no UTF-8),
\* "json" (a JSON value that is no object).
CmdUnit(cmd, i, n, id) == [k |-> "cmd", cmd |-> cmd, i |-> i, n |-> n, id |-> id]

RawUnit(k) == [k |-> k, cmd |-> NoCommand, i |-> 1, n |-> 1, id |-> 0]

\* the length of json.dumps(command), in units
CmdUnits(cmd) == 1 + Len(cmd.data)

\* a client that transmits its command a second time
EncodeTwice(cmd, id) ==
    [j \in 1..(2 * CmdUnits(cmd)) |->
        CmdUnit(cmd, ((j - 1) % CmdUnits(cmd)) + 1, CmdUnits(cmd), id)]

\* json.dumps(command).encode('utf-8')
EncodeCommand(cmd, id) ==
    [j \in 1..CmdUnits(cmd) |-> CmdUnit(cmd, j, CmdUnits(cmd), id)]

\* data.decode('utf-8') then json.loads: what one received chunk parses to
Parse(chunk) ==
    IF \E j \in 1..Len(chunk) : chunk[j].k = "bin"
    THEN [res |-> "UnicodeDecodeError", cmd |-> NoCommand, id |-> chunk[1].id]
    ELSE IF /\ chunk[1].k = "cmd"
            /\ Len(chunk) = chunk[1].n
            /\ \A j \in 1..Len(chunk) :
                  /\ chunk[j].k = "cmd" /\ chunk[j].i = j
                  /\ chunk[j].cmd = chunk[1].cmd /\ chunk[j].id = chunk[1].id
    THEN [res |-> "ok", cmd |-> chunk[1].cmd, id |-> chunk[1].id]
    ELSE IF Len(chunk) = 1 /\ chunk[1].k = "json"
    THEN [res |-> "nonobj", cmd |-> NoCommand, id |-> chunk[1].id]
    ELSE [res |-> "JSONDecodeError", cmd |-> NoCommand, id |-> chunk[1].id]

\* ---------------------------------------------------------------- state
VARIABLES
    sock,      \* I2CClient.socket: 0 None, -1 a socket that never connected,
               \* else the connection it is connected on
    cpc,       \* where the running client operation is: idle, recvLen, recvBody
    op,        \* the running operation: [id, fn, cmd, fresh]
    rxLen,     \* response_length
    rxData,    \* response_data
    last,      \* history: how the operation that has just finished ended
    prevFail,  \* history: the failure of the last finished operation ("": none)
    nops,      \* operations invoked so far
    unread,    \* history: commands sent on the socket the client holds whose
               \* response it has not read to the end
    conn,      \* the connections: [c2s, s2c, cfin, sfin]
    nconn,     \* connections opened so far
    spc,       \* the server: down, accept (in accept()), handle (in handle_client)
    acc,       \* connections accepted or reset so far; handle_client serves acc
    bus,       \* I2CServer.bus: none, open, closed
    resets,    \* history: whether each reset_interface of this server process
               \* reopened the bus, oldest first
    rawSock,   \* the raw peer's connection (0: none)
    nraw,      \* messages the raw peer sent so far
    lastServe, \* history: the pass through the handle_client loop just made
    current_address,  \* I2CDeviceHandler.current_address
    hlast      \* history: the most recent call of an I2CDeviceHandler method

vars == <<sock, cpc, op, rxLen, rxData, last, prevFail, nops, unread, conn, nconn,
          spc, acc, bus, resets, rawSock, nraw, lastServe, current_address, hlast>>

clientVars == <<sock, cpc, op, rxLen, rxData, nops, unread>>

serverVars == <<spc, acc, bus, resets>>

rawVars == <<rawSock, nraw>>

handlerVars == <<current_address, hlast>>

NoSocket == 0

Unconnected == -1

NoOp == [id |-> 0, fn |-> "", cmd |-> NoCommand, fresh |-> FALSE]

\* How an operation ended.  kind is "ok" or the exception raised; phase is
\* where it ended: connect (line 46), io (inside the try of lines 48-73) or
\* api (the API method, after _send_command returned); val, seq and msg hold
\* what it returned or the exception's text; resp is the response it decoded
\* (NoResponse when it decoded none); conn is the socket it used, after the
\* socket the client holds when the operation returns; fresh tells whether it
\* opened a connection; prev is the text of the failure of the operation
\* before it ("" when that one returned normally).  last holds the result in
\* the state the operation's last step leads to, and NoResult elsewhere.
Result(o, kind, phase, val, seq, msg, resp, c, after) ==
    [id |-> o.id, fn |-> o.fn, cmd |-> o.cmd, kind |-> kind, phase |-> phase,
     val |-> val, seq |-> seq, msg |-> msg, resp |-> resp, conn |-> c,
     after |-> after, fresh |-> o.fresh, prev |-> prevFail]

NoResult ==
    [id |-> 0, fn |-> "", cmd |-> NoCommand, kind |-> "none", phase |-> "",
     val |-> 0, seq |-> NoData, msg |-> "", resp |-> NoResponse, conn |-> 0,
     after |-> 0, fresh |-> FALSE, prev |-> ""]

NoConn == [c2s |-> <<>>, s2c |-> <<>>, cfin |-> FALSE, sfin |-> FALSE]

\* What a pass of the handle_client loop did: res is what the chunk parsed
\* to, cmd and id the command (and the client operation that sent it), calls
\* the driver calls made, resp the response put on the wire (NoResponse: none),
\* end what ended the loop in this pass ("": nothing, "decode": the chunk is
\* no UTF-8, "send": a send raised, "interrupt": the process was interrupted),
\* busBefore the handle the pass started with.
NoServe ==
    [res |-> "none", cmd |-> NoCommand, id |-> 0, calls |-> <<>>,
     resp |-> NoResponse, conn |-> 0, end |-> "", busBefore |-> "none"]

\* A call of a method of I2CDeviceHandler: n counts the calls, call is
\* "ioctl", "read" or "write", request and arg the arguments of an ioctl,
\* len the length of a read or of the data of a write, ret what an ioctl
\* returned, raised the exception the method raised before it called the
\* client ("": none), sent the client operation it invoked (0: none).
HandlerCall(n, call, request, arg, len, ret, raised, sent) ==
    [n |-> n, call |-> call, request |-> request, arg |-> arg, len |-> len,
     ret |-> ret, raised |-> raised, sent |-> sent]

NoHandlerCall == HandlerCall(0, "", 0, 0, 0, 0, "", 0)

Init ==
    /\ sock = NoSocket /\ cpc = "idle" /\ op = NoOp
    /\ rxLen = 0 /\ rxData = <<>> /\ last = NoResult /\ prevFail = "" /\ nops = 0
    /\ unread = 0
    /\ conn = [c \in 1..MaxConn |-> NoConn] /\ nconn = 0
    /\ spc = "down" /\ acc = 0 /\ bus = "none" /\ resets = <<>>
    /\ rawSock = NoSocket /\ nraw = 0
    /\ lastServe = NoServe
    /\ current_address = 0 /\ hlast = NoHandlerCall

\* ------------------------------------------------- the client operations
ReadFns == {"read_byte", "read_byte_data", "read_word_data", "read_i2c_block_data"}

WriteFns == {"write_byte", "write_byte_data", "write_word_data", "write_i2c_block_data"}

\* The calls of the client API, each with the command dictionary it builds.
ClientOps ==
    { [fn |-> "write_byte",
       cmd |-> Command("write_byte", {"type", "address", "value"},
                       80, 0, 171, NoData, 0)],
      [fn |-> "read_byte",
       cmd |-> Command("read_byte", {"type", "address"}, 80, 0, 0, NoData, 0)],
      [fn |-> "write_byte_data",
       cmd |-> Command("write_byte_data", {"type", "address", "register", "value"},
                       80, 16, 171, NoData, 0)],
      [fn |-> "read_byte_data",
       cmd |-> Command("read_byte_data", {"type", "address", "register"},
                       80, 16, 0, NoData, 0)],
      [fn |-> "write_word_data",
       cmd |-> Command("write_word_data", {"type", "address", "register", "value"},
                       96, 17, 4660, NoData, 0)],
      [fn |-> "read_word_data",
       cmd |-> Command("read_word_data", {"type", "address", "register"},
                       96, 17, 0, NoData, 0)],
      [fn |-> "write_i2c_block_data",
       cmd |-> Command("write_i2c_block_data", {"type", "address", "register", "data"},
                       80, 16, 0, <<1>>, 0)],
      [fn |-> "write_i2c_block_data",
       cmd |-> Command("write_i2c_block_data", {"type", "address", "register", "data"},
                       80, 16, 0, <<1, 2>>, 0)],
      [fn |-> "read_i2c_block_data",
       cmd |-> Command("read_i2c_block_data", {"type", "address", "register", "length"},
                       80, 16, 0, NoData, 2)],
      [fn |-> "scan",
       cmd |-> Command("scan", {"type"}, 0, 0, 0, NoData, 0)],
      [fn |-> "reset_interface",
       cmd |-> Command("reset_interface", {"type"}, 0, 0, 0, NoData, 0)],
      [fn |-> "_send_command",
       cmd |-> Command("frobnicate", {"type"}, 0, 0, 0, NoData, 0)],
      [fn |-> "_send_command",
       cmd |-> Command("", {"address"}, 80, 0, 0, NoData, 0)] }

\* socket.close() on the client's end of connection c
ClientClosed(cn, c) == [cn EXCEPT ![c].cfin = TRUE, ![c].s2c = <<>>]

Idle == cpc' = "idle" /\ op' = NoOp /\ rxLen' = 0 /\ rxData' = <<>>

\* the history variables, when an operation ends with result r and when a
\* step ends none
Ended(r) ==
    /\ last' = r
    /\ prevFail' = IF r.kind = "ok" THEN "" ELSE r.msg
    /\ lastServe' = NoServe

NotEnded == last' = NoResult /\ lastServe' = NoServe /\ UNCHANGED prevFail

\* a handler that re-raises and keeps the socket
RaiseKeep(o, kind, msg, resp, cn) ==
    /\ Ended(Result(o, kind, "io", 0, NoData, msg, resp, sock, sock))
    /\ conn' = cn
    /\ UNCHANGED <<sock, unread>>
    /\ Idle

\* except Exception: close and forget the socket, re-raise (lines 75-81)
Raise(o, kind, msg, resp, cn) ==
    /\ Ended(Result(o, kind, "io", 0, NoData, msg, resp, sock, NoSocket))
    /\ conn' = IF sock > 0 THEN ClientClosed(cn, sock) ELSE cn
    /\ sock' = NoSocket /\ unread' = 0
    /\ Idle

\* a client that reports its own text instead of the server's
MessageDefault(response, default) == default

\* response.get('message', default)
Message(response, default) ==
    IF "message" \in response.keys THEN response.message ELSE default

\* an API method that reads its payload with response.get(field)
ReturnedDefault(o, response) ==
    Result(o, "ok", "api", 0, NoData, "", response, sock, sock)

\* What the API method does with the response _send_command returned.
Returned(o, response) ==
    CASE o.fn \in {"read_byte", "read_byte_data", "read_word_data"} ->
            IF "value" \in response.keys
            THEN Result(o, "ok", "api", response.value, NoData, "", response, sock, sock)
            ELSE Result(o, "KeyError", "api", 0, NoData, "'value'", response, sock, sock)
      [] o.fn = "read_i2c_block_data" ->
            IF "data" \in response.keys
            THEN Result(o, "ok", "api", 0, response.data, "", response, sock, sock)
            ELSE Result(o, "KeyError", "api", 0, NoData, "'data'", response, sock, sock)
      [] o.fn = "scan" ->
            IF "devices" \in response.keys
            THEN Result(o, "ok", "api", 0, response.devices, "", response, sock, sock)
            ELSE Result(o, "KeyError", "api", 0, NoData, "'devices'", response, sock, sock)
      [] o.fn = "reset_interface" ->
            IF "status" \in response.keys /\ response.status = "success"
            THEN Result(o, "ok", "api", 0, NoData,
                        Message(response, "Interface reset successful"),
                        response, sock, sock)
            ELSE Result(o, "RuntimeError", "api", 0, NoData,
                        Message(response, "Reset failed"), response, sock, sock)
      [] OTHER -> Result(o, "ok", "api", 0, NoData, "", response, sock, sock)

IsErrorNever(response) == FALSE

\* response.get('status') == 'error' (line 70)
IsError(response) == "status" \in response.keys /\ response.status = "error"

\* Lines 68-73 and the API method's return: decode the body and finish.
Finish(body, cn) ==
    IF ~ValidBody(body)
    THEN Raise(op, "JSONDecodeError", "Expecting value", NoResponse, cn)
    ELSE LET response == body[1].r IN
         IF IsError(response)
         THEN Raise(op, "RuntimeError", Message(response, "Unknown error"),
                    response, cn)
         ELSE /\ Ended(Returned(op, response))
              /\ conn' = cn
              /\ Idle
              /\ unread' = unread - 1
              /\ UNCHANGED sock

\* whether connect() can succeed: the server socket is bound and listening
Listening == spc # "down"

\* the host and port the client object was constructed with
Host == "192.168.1.100"

Port == "8888"

CannotConnectBare(host, port) == "Cannot connect"

\* f"Cannot connect to {self.host}:{self.port}" (line 46)
CannotConnect(host, port) == "Cannot connect to " \o host \o ":" \o port

\* An operation of the client API up to its first recv: _send_command's
\* connect and send (lines 45-51).  sendOk: whether a send on a connection
\* the server has closed goes unnoticed.
Invoke(o, sendOk, limit) ==
    /\ cpc = "idle" /\ nops < limit
    /\ nops' = nops + 1
    /\ LET this == [id |-> nops + 1, fn |-> o.fn, cmd |-> o.cmd,
                    fresh |-> sock = NoSocket /\ Listening]
           data == EncodeCommand(o.cmd, nops + 1)
       IN
       IF sock = NoSocket /\ ~Listening
       THEN \* _connect returned False (lines 39-41); line 46 raises outside the try
            /\ sendOk
            /\ Ended(Result(this, "ConnectionError", "connect", 0, NoData,
                            CannotConnect(Host, Port), NoResponse, Unconnected,
                            Unconnected))
            /\ sock' = Unconnected
            /\ UNCHANGED <<cpc, op, rxLen, rxData, unread, conn, nconn>>
       ELSE IF sock = NoSocket
       THEN /\ sendOk
            /\ nconn < MaxConn
            /\ nconn' = nconn + 1
            /\ sock' = nconn + 1
            /\ conn' = [conn EXCEPT ![nconn + 1].c2s = data]
            /\ cpc' = "recvLen" /\ op' = this /\ unread' = 1
            /\ NotEnded
            /\ UNCHANGED <<rxLen, rxData>>
       ELSE IF sock = Unconnected \/ (conn[sock].sfin /\ ~sendOk)
       THEN \* send raises (EPIPE, ECONNRESET)
            /\ sock = Unconnected => ~sendOk
            /\ Raise(this, "OSError", "Broken pipe", NoResponse, conn)
            /\ UNCHANGED nconn
       ELSE /\ conn[sock].sfin \/ sendOk
            /\ conn' = IF conn[sock].sfin THEN conn
                       ELSE [conn EXCEPT ![sock].c2s = @ \o data]
            /\ cpc' = "recvLen" /\ op' = this /\ unread' = unread + 1
            /\ NotEnded
            /\ UNCHANGED <<sock, rxLen, rxData, nconn>>
    /\ UNCHANGED <<serverVars, rawVars>>

CallOp(o, sendOk) == Invoke(o, sendOk, MaxOps) /\ UNCHANGED handlerVars

\* the operations of a caller that writes a long block and reads bytes
SyncOps ==
    {o \in ClientOps : \/ o.fn \in {"read_byte", "read_byte_data"}
                       \/ Len(o.cmd.data) > 1}

CallSync(o, sendOk) == Invoke(o, sendOk, MaxSyncOps) /\ UNCHANGED handlerVars

\* the operations of a caller that resets the interface and reads bytes
ResetOps == {o \in ClientOps : o.fn \in {"reset_interface", "read_byte"}}

CallReset(o, sendOk) == Invoke(o, sendOk, MaxResetOps) /\ UNCHANGED handlerVars

\* the operations of a caller that shares the server with a raw peer
PeerOps == {o \in ClientOps : o.fn = "read_byte"}

CallPeer(o, sendOk) == Invoke(o, sendOk, MaxOps) /\ UNCHANGED handlerVars

\* the operations of a caller that writes a short block and reads bytes
StaleOps ==
    {o \in ClientOps : \/ o.fn = "read_byte"
                       \/ o.fn = "write_i2c_block_data" /\ Len(o.cmd.data) = 1}

CallStale(o, sendOk) == Invoke(o, sendOk, MaxStaleOps) /\ UNCHANGED handlerVars

\* the operations of a caller that scans while a raw peer reads a byte
PairOps == {o \in ClientOps : o.fn = "scan"}

CallPair(o, sendOk) == Invoke(o, sendOk, MaxPairOps) /\ UNCHANGED handlerVars

\* length_data = self.socket.recv(4) (lines 54-58): n bytes arrive
RecvLen(n) ==
    /\ cpc = "recvLen"
    /\ LET s == conn[sock].s2c IN
       IF s # <<>>
       THEN /\ n \in 1..Min(PrefixLen, Len(s))
            /\ LET cn == [conn EXCEPT ![sock].s2c = Drop(s, n)] IN
               IF n # PrefixLen
               THEN Raise(op, "ConnectionError", "Failed to receive response length",
                          NoResponse, cn)
               ELSE LET length == Unpack32([j \in 1..PrefixLen |-> s[j].b]) IN
                    IF length = 0
                    THEN Finish(<<>>, cn)
                    ELSE /\ rxLen' = length /\ rxData' = <<>> /\ cpc' = "recvBody"
                         /\ conn' = cn
                         /\ NotEnded
                         /\ UNCHANGED <<sock, op, unread>>
       ELSE /\ conn[sock].sfin /\ n = 0
            /\ Raise(op, "ConnectionError", "Failed to receive response length",
                     NoResponse, conn)
    /\ UNCHANGED <<nops, nconn, serverVars, rawVars, handlerVars>>

ShortBodyDecode(cn) == Finish(rxData, cn)

\* a receive loop that asks for a full chunk every time
WantChunk(need) == RecvChunk

\* min(4096, response_length - len(response_data)) (line 63)
Want(need) == Min(RecvChunk, need)

\* if not chunk: raise ConnectionError (lines 64-65)
ShortBody(cn) ==
    Raise(op, "ConnectionError", "Connection closed while receiving response",
          NoResponse, cn)

\* one pass of the receive loop (lines 62-66), then lines 68-73 when complete
RecvBody(n) ==
    /\ cpc = "recvBody"
    /\ LET s == conn[sock].s2c
           need == rxLen - Len(rxData)
       IN
       IF s # <<>>
       THEN /\ n \in 1..Min(Want(need), Len(s))
            /\ LET cn == [conn EXCEPT ![sock].s2c = Drop(s, n)]
                   data == rxData \o Take(s, n)
               IN
               IF Len(data) < rxLen
               THEN /\ rxData' = data /\ conn' = cn
                    /\ NotEnded
                    /\ UNCHANGED <<sock, cpc, op, rxLen, unread>>
               ELSE Finish(data, cn)
       ELSE /\ conn[sock].sfin /\ n = 0
            /\ ShortBody(conn)
    /\ UNCHANGED <<nops, nconn, serverVars, rawVars, handlerVars>>

\* a timeout that is re-raised with the socket kept
TimeoutKeep ==
    /\ cpc \in {"recvLen", "recvBody"}
    /\ conn[sock].s2c = <<>> /\ ~conn[sock].sfin
    /\ RaiseKeep(op, "timeout", "timed out", NoResponse, conn)
    /\ UNCHANGED <<nops, nconn, serverVars, rawVars, handlerVars>>

\* a socket without a timeout: a recv with nothing to read never returns
TimeoutNever == FALSE /\ UNCHANGED vars

\* socket.timeout (settimeout, line 35): a recv with nothing to read gives up
Timeout ==
    /\ cpc \in {"recvLen", "recvBody"}
    /\ conn[sock].s2c = <<>> /\ ~conn[sock].sfin
    /\ Raise(op, "timeout", "timed out", NoResponse, conn)
    /\ UNCHANGED <<nops, nconn, serverVars, rawVars, handlerVars>>

\* I2CClient.close (lines 177-181)
Close ==
    /\ cpc = "idle" /\ sock # NoSocket
    /\ conn' = IF sock > 0 THEN ClientClosed(conn, sock) ELSE conn
    /\ sock' = NoSocket /\ unread' = 0
    /\ NotEnded
    /\ UNCHANGED <<cpc, op, rxLen, rxData, nops, nconn, serverVars, rawVars, handlerVars>>

\* what last holds after a call of close(): no result of an operation, the
\* socket the client held before in conn
Closed(c) == [NoResult EXCEPT !.fn = "close", !.conn = c, !.after = NoSocket]

\* a close() that closes the socket and keeps it in self.socket
CloseCallKeep ==
    /\ cpc = "idle"
    /\ conn' = IF sock > 0 THEN ClientClosed(conn, sock) ELSE conn
    /\ unread' = 0
    /\ last' = [Closed(sock) EXCEPT !.after = sock]
    /\ lastServe' = NoServe
    /\ UNCHANGED <<sock, prevFail, cpc, op, rxLen, rxData, nops, nconn, serverVars,
                   rawVars, handlerVars>>

\* I2CClient.close (lines 177-181) as a call the caller makes in any state
\* between operations, recorded in last: with no socket (line 179 is false)
\* it does nothing
CloseCall ==
    /\ cpc = "idle"
    /\ conn' = IF sock > 0 THEN ClientClosed(conn, sock) ELSE conn
    /\ sock' = NoSocket /\ unread' = 0
    /\ last' = Closed(sock)
    /\ lastServe' = NoServe
    /\ UNCHANGED <<prevFail, cpc, op, rxLen, rxData, nops, nconn, serverVars, rawVars, handlerVars>>

\* ------------------------------------------------- the device file handler
\* I2CDeviceHandler of virtual_i2c.py: the ioctl requests of linux/i2c-dev.h
\* (lines 24-28), errno.ENOTTY and the I2C_FUNC_I2C answer of line 134
I2C_SLAVE == 1795

I2C_SLAVE_FORCE == 1798

I2C_TENBIT == 1796

I2C_FUNCS == 1797

I2C_RDWR == 1799

ENOTTY == 25

I2C_FUNC_I2C == 458753

\* the requests a program makes (I2C_RDWR is one the handler does not know),
\* their arguments, the lengths it reads and the data it writes
IoctlRequests == {I2C_SLAVE, I2C_SLAVE_FORCE, I2C_TENBIT, I2C_FUNCS, I2C_RDWR}

IoctlArgs == {80, 96}

ReadLengths == {0, 1, 2}

WriteData == {<<>>, <<171>>, <<16, 171>>, <<16, 171, 205>>}

\* a handler that takes the argument of I2C_TENBIT for an address
IoctlTenbit(request, arg, address) ==
    IF request \in {I2C_SLAVE, I2C_SLAVE_FORCE, I2C_TENBIT}
    THEN [address |-> arg, ret |-> 0]
    ELSE IF request = I2C_FUNCS THEN [address |-> address, ret |-> I2C_FUNC_I2C]
    ELSE [address |-> address, ret |-> 0 - ENOTTY]

\* handle_ioctl (lines 124-136): the address it leaves and what it returns
Ioctl(request, arg, address) ==
    IF request = I2C_SLAVE \/ request = I2C_SLAVE_FORCE
    THEN [address |-> arg, ret |-> 0]
    ELSE IF request = I2C_TENBIT THEN [address |-> address, ret |-> 0 - ENOTTY]
    ELSE IF request = I2C_FUNCS THEN [address |-> address, ret |-> I2C_FUNC_I2C]
    ELSE [address |-> address, ret |-> 0 - ENOTTY]

handle_ioctl(request, arg) ==
    /\ cpc = "idle" /\ hlast.n < MaxHandlerCalls
    /\ LET r == Ioctl(request, arg, current_address) IN
       /\ current_address' = r.address
       /\ hlast' = HandlerCall(hlast.n + 1, "ioctl", request, arg, 0, r.ret, "", 0)
    /\ NotEnded
    /\ UNCHANGED <<clientVars, conn, nconn, serverVars, rawVars>>

\* raise NotImplementedError (lines 146, 160): logged and re-raised, the
\* client is not called
NotImplemented(call, len) ==
    /\ hlast' = HandlerCall(hlast.n + 1, call, 0, 0, len, 0, "NotImplementedError", 0)
    /\ NotEnded
    /\ UNCHANGED <<clientVars, conn, nconn, serverVars, rawVars>>

\* the client operation a handler method calls, up to its first recv
Forward(call, len, o, sendOk) ==
    /\ Invoke(o, sendOk, MaxHandlerCalls)
    /\ hlast' = HandlerCall(hlast.n + 1, call, 0, 0, len, 0, "", nops + 1)

\* handle_read (lines 138-149)
handle_read(length, sendOk) ==
    /\ cpc = "idle" /\ hlast.n < MaxHandlerCalls
    /\ IF length = 1
       THEN Forward("read", length,
                    [fn |-> "read_byte",
                     cmd |-> Command("read_byte", {"type", "address"},
                                     current_address, 0, 0, NoData, 0)],
                    sendOk)
       ELSE sendOk /\ NotImplemented("read", length)
    /\ UNCHANGED current_address

\* handle_write (lines 151-164)
handle_write(data, sendOk) ==
    /\ cpc = "idle" /\ hlast.n < MaxHandlerCalls
    /\ IF Len(data) = 1
       THEN Forward("write", Len(data),
                    [fn |-> "write_byte",
                     cmd |-> Command("write_byte", {"type", "address", "value"},
                                     current_address, 0, data[1], NoData, 0)],
                    sendOk)
       ELSE IF Len(data) = 2
       THEN Forward("write", Len(data),
                    [fn |-> "write_byte_data",
                     cmd |-> Command("write_byte_data",
                                     {"type", "address", "register", "value"},
                                     current_address, data[1], data[2], NoData, 0)],
                    sendOk)
       ELSE sendOk /\ NotImplemented("write", Len(data))
    /\ UNCHANGED current_address

\* ------------------------------------------------------------ the server
\* a server that goes on to listen when init_i2c failed
StartAnyway(ok) ==
    /\ spc = "down"
    /\ spc' = "accept"
    /\ bus' = IF ok THEN "open" ELSE bus
    /\ NotEnded
    /\ UNCHANGED <<resets, acc, conn, nconn, clientVars, rawVars, handlerVars>>

\* start_server up to the accept loop (lines 37-48): init_i2c opens the bus
Start(ok) ==
    /\ spc = "down"
    /\ IF ok THEN bus' = "open" /\ spc' = "accept"
             ELSE UNCHANGED <<bus, spc>>
    /\ UNCHANGED resets
    /\ NotEnded
    /\ UNCHANGED <<acc, conn, nconn, clientVars, rawVars, handlerVars>>

\* a server that accepts the next connection while it handles one
AcceptEarly ==
    /\ spc \in {"accept", "handle"} /\ acc < nconn
    /\ acc' = acc + 1 /\ spc' = "handle"
    /\ NotEnded
    /\ UNCHANGED <<bus, resets, conn, nconn, clientVars, rawVars, handlerVars>>

\* accept() returns the oldest pending connection (lines 51-53)
Accept ==
    /\ spc = "accept" /\ acc < nconn
    /\ acc' = acc + 1 /\ spc' = "handle"
    /\ NotEnded
    /\ UNCHANGED <<bus, resets, conn, nconn, clientVars, rawVars, handlerVars>>

\* the finally clauses of handle_client and start_server when the server
\* process is interrupted: every socket and the bus handle are closed
ShutDown(cn) == [c \in 1..MaxConn |->
                    IF c <= nconn THEN [cn[c] EXCEPT !.sfin = TRUE, !.c2s = <<>>]
                    ELSE cn[c]]

\* a handler that leaves the client's socket open
ServerClosedNot(cn, c) == cn

\* finally: client_socket.close() (line 94)
ServerClosed(cn, c) == [cn EXCEPT ![c].sfin = TRUE, ![c].c2s = <<>>]

Served(p, out, resp, end) ==
    [res |-> p.res, cmd |-> p.cmd, id |-> p.id, calls |-> out.calls,
     resp |-> resp, conn |-> acc, end |-> end, busBefore |-> bus]

\* what the driver may do during a command: the addresses that acknowledge,
\* the value a read returns, whether SMBus(bus_number) reopens
AcksFor(p) ==
    IF p.res # "ok" THEN {{}}
    ELSE IF CmdType(p.cmd) = "scan" THEN AckSets
    ELSE IF CmdType(p.cmd) \in ReadFns \cup WriteFns THEN {{}, {80, 96}}
    ELSE {{}}

ValsFor(p) ==
    IF p.res = "ok" /\ CmdType(p.cmd) \in ReadFns THEN ReadVals ELSE {23}

ReopensFor(p) ==
    IF p.res = "ok" /\ CmdType(p.cmd) = "reset_interface" THEN BOOLEAN ELSE {TRUE}

\* One pass of the handle_client loop that received data (lines 70-89): the
\* recv returns n units; acks, v and reopenOk are what the driver does;
\* sendOk is whether a send to a peer that has closed goes unnoticed; wire is
\* how many units of the response frame are sent before the process is
\* interrupted (all of them: it is not).
Serve(n, acks, v, reopenOk, sendOk, wire) ==
    /\ spc = "handle" /\ conn[acc].c2s # <<>>
    /\ n \in 1..Min(RecvBuf, Len(conn[acc].c2s))
    /\ conn[acc].cfin \/ sendOk
    /\ wire \in {PrefixLen, PrefixLen + 1, PrefixLen + BodyUnits}
    /\ LET c == conn[acc]
           chunk == Take(c.c2s, n)
           p == Parse(chunk)
           out == IF p.res \in {"ok", "nonobj"}
                  THEN ProcessCommand(p.cmd, p.res = "ok", bus, acks, v, reopenOk)
                  ELSE Outcome(InvalidJson, <<>>, bus)
           resp == [out.resp EXCEPT !.re = p.id]
           frame == Frame(resp)
           rest == [conn EXCEPT ![acc].c2s = Drop(c.c2s, n)]
       IN
       /\ acks \in AcksFor(p) /\ v \in ValsFor(p) /\ reopenOk \in ReopensFor(p)
       /\ IF p.res = "UnicodeDecodeError"
          THEN \* not a JSONDecodeError: caught at line 91, the socket is closed
               /\ wire = Len(frame) /\ sendOk
               /\ conn' = ServerClosed(rest, acc)
               /\ spc' = "accept" /\ bus' = bus
               /\ lastServe' = Served(p, out, NoResponse, "decode")
          ELSE IF c.cfin /\ ~sendOk
          THEN \* send raises: caught at line 91, the socket is closed
               /\ wire = Len(frame)
               /\ conn' = ServerClosed(rest, acc)
               /\ spc' = "accept" /\ bus' = out.bus
               /\ lastServe' = Served(p, out, NoResponse, "send")
          ELSE IF wire < Len(frame)
          THEN \* interrupted between or inside the sends of lines 82-83
               /\ conn' = ShutDown(IF c.cfin THEN rest
                                   ELSE [rest EXCEPT ![acc].s2c = @ \o Take(frame, wire)])
               /\ spc' = "down" /\ bus' = "closed"
               /\ lastServe' = Served(p, out, NoResponse, "interrupt")
          ELSE /\ conn' = IF c.cfin THEN rest
                          ELSE [rest EXCEPT ![acc].s2c = @ \o frame]
               /\ spc' = "handle" /\ bus' = out.bus
               /\ lastServe' = Served(p, out, resp, "")
    /\ acc' = IF spc' = "down" THEN nconn ELSE acc
    /\ resets' = IF spc' = "down" THEN <<>>
                 ELSE IF lastServe'.res = "ok" /\ CmdType(lastServe'.cmd) = "reset_interface"
                 THEN Append(resets, reopenOk)
                 ELSE resets
    /\ last' = NoResult
    /\ UNCHANGED <<prevFail, nconn, clientVars, rawVars, handlerVars>>

\* A pass of the loop in which a send accepts only part of the bytes handed
\* to it: socket.send returns the number of bytes it took and lines 82-83
\* (and 88-89) ignore it, so only the first `wire` units of the frame go on
\* the wire and the loop goes on.
ServeShort(n, acks, v, reopenOk, wire) ==
    /\ spc = "handle" /\ conn[acc].c2s # <<>> /\ ~conn[acc].cfin
    /\ n \in 1..Min(RecvBuf, Len(conn[acc].c2s))
    /\ LET c == conn[acc]
           p == Parse(Take(c.c2s, n))
           out == IF p.res \in {"ok", "nonobj"}
                  THEN ProcessCommand(p.cmd, p.res = "ok", bus, acks, v, reopenOk)
                  ELSE Outcome(InvalidJson, <<>>, bus)
           resp == [out.resp EXCEPT !.re = p.id]
           frame == Frame(resp)
       IN
       /\ p.res # "UnicodeDecodeError"
       /\ acks \in AcksFor(p) /\ v \in ValsFor(p) /\ reopenOk \in ReopensFor(p)
       /\ wire \in 1..(Len(frame) - 1)
       /\ conn' = [conn EXCEPT ![acc].c2s = Drop(c.c2s, n),
                               ![acc].s2c = @ \o Take(frame, wire)]
       /\ bus' = out.bus
       /\ lastServe' = Served(p, out, resp, "short")
       /\ resets' = IF p.res = "ok" /\ CmdType(p.cmd) = "reset_interface"
                    THEN Append(resets, reopenOk)
                    ELSE resets
    /\ last' = NoResult
    /\ UNCHANGED <<spc, acc, prevFail, nconn, clientVars, rawVars, handlerVars>>

\* a session end that also closes the bus handle
EofClosesBus ==
    /\ spc = "handle" /\ conn[acc].c2s = <<>> /\ conn[acc].cfin
    /\ conn' = ServerClosed(conn, acc)
    /\ spc' = "accept" /\ bus' = "closed"
    /\ NotEnded
    /\ UNCHANGED <<acc, resets, nconn, clientVars, rawVars, handlerVars>>

\* recv returns b'': the peer closed and everything was read (lines 71-72, 94)
Eof ==
    /\ spc = "handle" /\ conn[acc].c2s = <<>> /\ conn[acc].cfin
    /\ conn' = ServerClosed(conn, acc)
    /\ spc' = "accept"
    /\ NotEnded
    /\ UNCHANGED <<acc, bus, resets, nconn, clientVars, rawVars, handlerVars>>

\* KeyboardInterrupt while blocked in accept or recv (lines 55-63)
Stop ==
    /\ spc \in {"accept", "handle"}
    /\ spc' = "down" /\ bus' = "closed" /\ acc' = nconn /\ resets' = <<>>
    /\ conn' = ShutDown(conn)
    /\ NotEnded
    /\ UNCHANGED <<nconn, clientVars, rawVars, handlerVars>>

\* ----------------------------------------------------------- a raw peer
\* Another TCP peer, which writes bytes of kind k and never reads.
\* "cmd" is a well-formed read_byte command, "nofield" one without its address.
RawKinds == {"text", "bin", "json", "cmd", "nofield"}

RawBytes(k) ==
    IF k = "cmd"
    THEN EncodeCommand(Command("read_byte", {"type", "address"}, 80, 0, 0, NoData, 0), 0)
    ELSE IF k = "nofield"
    THEN EncodeCommand(Command("read_byte", {"type"}, 0, 0, 0, NoData, 0), 0)
    ELSE <<RawUnit(k)>>

RawSend(k) ==
    /\ nraw < MaxRaw /\ Listening
    /\ nraw' = nraw + 1
    /\ IF rawSock = NoSocket
       THEN /\ nconn < MaxConn
            /\ nconn' = nconn + 1 /\ rawSock' = nconn + 1
            /\ conn' = [conn EXCEPT ![nconn + 1].c2s = RawBytes(k)]
       ELSE /\ ~conn[rawSock].sfin
            /\ conn' = [conn EXCEPT ![rawSock].c2s = @ \o RawBytes(k)]
            /\ UNCHANGED <<nconn, rawSock>>
    /\ NotEnded
    /\ UNCHANGED <<clientVars, serverVars, handlerVars>>

RawClose ==
    /\ rawSock # NoSocket
    /\ conn' = ClientClosed(conn, rawSock)
    /\ rawSock' = NoSocket
    /\ NotEnded
    /\ UNCHANGED <<nraw, nconn, clientVars, serverVars, handlerVars>>

\* ------------------------------------------------------- specification
Receive ==
    \/ \E n \in 0..PrefixLen : RecvLen(n)
    \/ \E n \in 0..RecvChunk : RecvBody(n)
    \/ Timeout

ClientNext ==
    \/ \E o \in ClientOps, sendOk \in BOOLEAN : CallOp(o, sendOk)
    \/ Receive
    \/ Close

ServerNext ==
    \/ \E ok \in BOOLEAN : Start(ok)
    \/ Accept
    \/ \E n \in 1..RecvBuf, acks \in AckSets, v \in ReadVals,
          reopenOk \in BOOLEAN, sendOk \in BOOLEAN,
          wire \in PrefixLen..(PrefixLen + BodyUnits) :
          Serve(n, acks, v, reopenOk, sendOk, wire)
    \/ Eof
    \/ Stop

Next == ClientNext \/ ServerNext

Spec == Init /\ [][Next]_vars

\* a caller that uses only SyncOps
NextSync ==
    \/ \E o \in SyncOps, sendOk \in BOOLEAN : CallSync(o, sendOk)
    \/ Receive
    \/ Close
    \/ ServerNext

SpecSync == Init /\ [][NextSync]_vars

\* a caller that resets the interface and reads bytes
NextReset ==
    \/ \E o \in ResetOps, sendOk \in BOOLEAN : CallReset(o, sendOk)
    \/ Receive
    \/ Close
    \/ ServerNext

SpecReset == Init /\ [][NextReset]_vars

\* a caller that reads bytes, and a raw peer
NextPeers ==
    \/ \E o \in PeerOps, sendOk \in BOOLEAN : CallPeer(o, sendOk)
    \/ Receive
    \/ Close
    \/ ServerNext
    \/ \E k \in RawKinds : RawSend(k)
    \/ RawClose

SpecPeers == Init /\ [][NextPeers]_vars

\* a caller that writes a short block and reads bytes
NextStale ==
    \/ \E o \in StaleOps, sendOk \in BOOLEAN : CallStale(o, sendOk)
    \/ Receive
    \/ Close
    \/ ServerNext

SpecStale == Init /\ [][NextStale]_vars

\* the same caller, and a server whose sends may be short
NextShort ==
    \/ NextStale
    \/ \E n \in 1..RecvBuf, acks \in AckSets, v \in ReadVals,
          reopenOk \in BOOLEAN, wire \in 1..(PrefixLen + BodyUnits) :
          ServeShort(n, acks, v, reopenOk, wire)

SpecShort == Init /\ [][NextShort]_vars

\* a caller that scans, and a raw peer that sends read_byte commands
NextPair ==
    \/ \E o \in PairOps, sendOk \in BOOLEAN : CallPair(o, sendOk)
    \/ Receive
    \/ Close
    \/ ServerNext
    \/ RawSend("cmd")
    \/ RawClose

SpecPair == Init /\ [][NextPair]_vars

\* a caller that reads bytes and calls close() whenever it likes
NextClose ==
    \/ \E o \in PeerOps, sendOk \in BOOLEAN : CallPeer(o, sendOk)
    \/ Receive
    \/ CloseCall
    \/ ServerNext

SpecClose == Init /\ [][NextClose]_vars

\* a program that uses the device file handler
NextHandler ==
    \/ \E request \in IoctlRequests, arg \in IoctlArgs : handle_ioctl(request, arg)
    \/ \E length \in ReadLengths, sendOk \in BOOLEAN : handle_read(length, sendOk)
    \/ \E data \in WriteData, sendOk \in BOOLEAN : handle_write(data, sendOk)
    \/ Receive
    \/ ServerNext

SpecHandler == Init /\ [][NextHandler]_vars

\* recv(1024) of handle_client can return data
CanServe == spc = "handle" /\ conn[acc].c2s # <<>>

\* The same with the progress the two programs make on their own: a recv of
\* the client returns (with data, with end of stream or with a timeout), and
\* the server, which is one thread, runs whenever its accept or its recv
\* can return.  The last conjunct is the weak fairness of the Serve steps
\* written on states: a Serve step is enabled exactly when CanServe holds,
\* and lastServe differs from NoServe exactly in the state a Serve step
\* leads to.  Nothing makes a caller invoke or close, a peer send or close,
\* or the server start or stop.
SpecLive ==
    /\ SpecPair
    /\ WF_vars(Receive)
    /\ WF_vars(Accept) /\ WF_vars(Eof)
    /\ ([]<>(~CanServe) \/ []<>(lastServe # NoServe))

\* ------------------------------------------------------------ the claims
KnownTypes ==
    ReadFns \cup WriteFns \cup {"scan", "reset_interface"}

Truncated == "Connection closed while receiving response"

\* the values of a sequence
Range(q) == {q[j] : j \in 1..Len(q)}

\* C1: a read operation that returns, returns the value the bus driver
\* returned for the call the server made for this operation's command, a call
\* of the same variant with the operation's address, register and length.
C1_ReadRoundTrip ==
    (last.kind = "ok" /\ last.fn \in ReadFns) =>
        LET c == last.resp.call IN
        /\ last.resp.re = last.id
        /\ c.ok /\ c.fn = last.fn
        /\ c.address = last.cmd.address
        /\ c.register = last.cmd.register
        /\ c.length = last.cmd.length
        /\ IF last.fn = "read_i2c_block_data"
           THEN last.seq = c.retdata
           ELSE last.val = c.ret

\* C2: the response a client operation reads is the server's answer to the
\* command that operation sent, never the answer to an earlier one.
C2_OwnResponse ==
    last.resp # NoResponse => last.resp.re = last.id

\* C3: a scan answers status success with, as devices, the addresses of
\* 0x03..0x77 whose probe did not fault, in strictly ascending order, and the
\* client's scan returns that list.
C3_ScanDevices ==
    /\ (lastServe.res = "ok" /\ CmdType(lastServe.cmd) = "scan" /\ lastServe.end = "") =>
          LET r == lastServe.resp
              d == r.devices
              calls == lastServe.calls
          IN /\ r.keys = {"status", "devices"} /\ r.status = "success"
             /\ \A i \in 1..Len(d), j \in 1..Len(d) : i < j => d[i] < d[j]
             /\ Range(d) = {a \in 3..119 :
                               \E j \in 1..Len(calls) :
                                   /\ calls[j].fn = "read_byte"
                                   /\ calls[j].address = a /\ calls[j].ok}
    /\ (last.fn = "scan" /\ last.kind = "ok") => last.seq = last.resp.devices

C3_Witness ==
    /\ last.fn = "scan" /\ last.kind = "ok" /\ last.seq = <<80, 96>>
    /\ last.resp.re = last.id

\* C4: when the response an operation decodes has status error, the
\* operation raises RuntimeError with the response's message and returns
\* nothing.
C4_RemoteError ==
    (last.resp # NoResponse /\ "status" \in last.resp.keys
        /\ last.resp.status = "error") =>
        /\ last.kind = "RuntimeError"
        /\ last.msg = last.resp.message
        /\ last.val = 0 /\ last.seq = NoData

C4_Witness ==
    /\ last.kind = "RuntimeError" /\ last.resp.status = "error"
    /\ last.msg = DriverFault

\* C5: an exchange that ends with a decoded response leaves the client on
\* the connection it used.
C5_ResponseKeepsSession ==
    last.resp # NoResponse => (sock = last.conn /\ ~conn[last.conn].cfin)

\* C6: an operation that ends with an exception raised while sending or
\* receiving leaves the client without a socket, its connection closed, and
\* the next operation starts by connecting.
C6_FailureDiscardsSocket ==
    [][/\ (last'.kind \notin {"ok", "none"} /\ last'.phase = "io") =>
              /\ sock' = NoSocket
              /\ last'.conn > 0 => conn'[last'.conn].cfin
       /\ (last.kind \notin {"ok", "none"} /\ last.phase = "io" /\ nops' = nops + 1) =>
              \/ nconn' = nconn + 1 /\ sock' = nconn' /\ cpc' = "recvLen"
              \/ last'.phase = "connect"]_vars

C6_Witness ==
    /\ last.phase = "io" /\ sock = NoSocket
    /\ last.kind \in {"timeout", "ConnectionError", "OSError"}

\* C7: an operation that raises ConnectionError leaves the client without a
\* socket.
C7_ConnectionErrorNoSocket ==
    last.kind = "ConnectionError" => sock = NoSocket

\* C8: when the stream ends before the declared body is complete the
\* operation raises ConnectionError and drops the socket; the next operation
\* opens a new connection when the server listens, and what it then decodes
\* is the answer to its own command.
C8_TruncatedBody ==
    [][/\ (/\ cpc = "recvBody" /\ cpc' = "idle"
           /\ conn[sock].s2c = <<>> /\ conn[sock].sfin) =>
              /\ last'.kind = "ConnectionError" /\ last'.msg = Truncated
              /\ sock' = NoSocket
       /\ (prevFail = Truncated /\ nops' = nops + 1 /\ Listening) =>
              /\ nconn' = nconn + 1 /\ sock' = nconn' /\ cpc' = "recvLen"
       /\ (last'.prev = Truncated /\ last'.resp # NoResponse) =>
              /\ last'.fresh /\ last'.resp.re = last'.id]_vars

C8_Witness ==
    /\ last.prev = Truncated /\ last.kind = "ok" /\ last.fresh
    /\ last.fn \in ReadFns /\ last.val = last.resp.call.ret

\* C9: a chunk that is no JSON text is answered with the Invalid JSON
\* response, without a driver call, and the loop goes on with the connection
\* open (unless sending the answer fails or the process is interrupted).
C9_InvalidJsonAnswered ==
    (lastServe.res \in {"JSONDecodeError", "UnicodeDecodeError"}
        /\ lastServe.end \notin {"send", "interrupt"}) =>
        /\ lastServe.resp.keys = {"error"} /\ lastServe.resp.error = "Invalid JSON"
        /\ lastServe.calls = <<>>
        /\ spc = "handle" /\ ~conn[lastServe.conn].sfin

\* C10: a command of no recognized type is answered status error with
\* "Unknown command type: <type>", makes no driver call, leaves the bus
\* handle alone and does not end the loop (only a failing send or an
\* interrupt may).
C10_UnknownCommand ==
    (lastServe.res = "ok" /\ CmdType(lastServe.cmd) \notin KnownTypes) =>
        /\ lastServe.calls = <<>>
        /\ lastServe.end \in {"", "send", "interrupt"}
        /\ lastServe.end # "interrupt" => bus = lastServe.busBefore
        /\ lastServe.end = "" =>
              /\ lastServe.resp.keys = {"status", "message"}
              /\ lastServe.resp.status = "error"
              /\ lastServe.resp.message =
                    "Unknown command type: " \o CmdType(lastServe.cmd)
              /\ spc = "handle" /\ ~conn[lastServe.conn].sfin

C10_Witness ==
    /\ lastServe.res = "ok" /\ lastServe.end = ""
    /\ lastServe.resp.message = "Unknown command type: frobnicate"

\* the fields the branch of a bus command reads
Required(t) ==
    CASE t \in {"write_byte"} -> {"address", "value"}
      [] t \in {"read_byte"} -> {"address"}
      [] t \in {"write_byte_data", "write_word_data"} -> {"address", "register", "value"}
      [] t \in {"read_byte_data", "read_word_data"} -> {"address", "register"}
      [] t = "write_i2c_block_data" -> {"address", "register", "data"}
      [] t = "read_i2c_block_data" -> {"address", "register", "length"}
      [] OTHER -> {}

\* C11: a parsed command whose dispatch faults (the JSON value is no object,
\* a required field is missing, the driver call raises) is answered status
\* error with the fault's message and the loop goes on; a pass of the loop
\* ends the loop only when a send fails (or the process is interrupted).
C11_DispatchFaults ==
    LET s == lastServe
        t == CmdType(s.cmd)
        isBus == s.res = "ok" /\ t \in ReadFns \cup WriteFns
        missing == isBus /\ ~(Required(t) \subseteq s.cmd.keys)
        faulted == isBus /\ s.calls # <<>> /\ ~s.calls[1].ok
    IN
    /\ ((s.res = "nonobj" \/ missing \/ faulted) /\ s.end = "") =>
          /\ s.resp.keys = {"status", "message"} /\ s.resp.status = "error"
          /\ s.resp.message =
                IF s.res = "nonobj" THEN "object has no attribute 'get'"
                ELSE IF missing
                THEN KeyErrorText(CHOOSE f \in Required(t) \ s.cmd.keys : TRUE)
                ELSE DriverFault
          /\ missing => s.calls = <<>>
          /\ spc = "handle" /\ ~conn[s.conn].sfin
    /\ s.res # "none" => s.end \in {"", "send", "interrupt"}

\* the first conjunct of C11 alone
C11_FaultsAnswered ==
    LET s == lastServe
        t == CmdType(s.cmd)
        isBus == s.res = "ok" /\ t \in ReadFns \cup WriteFns
        missing == isBus /\ ~(Required(t) \subseteq s.cmd.keys)
        faulted == isBus /\ s.calls # <<>> /\ ~s.calls[1].ok
    IN
    ((s.res = "nonobj" \/ missing \/ faulted) /\ s.end = "") =>
          /\ s.resp.status = "error"
          /\ s.resp.message \in {"object has no attribute 'get'", "'address'", DriverFault}
          /\ spc = "handle" /\ ~conn[s.conn].sfin

\* C12: a reset_interface leaves the bus handle open and answers success
\* when the reopen succeeds, whatever happened before, and leaves it closed
\* and answers status error with the fault's message when the reopen fails;
\* a bus command succeeds only on an open handle.
C12_ResetRecovers ==
    LET s == lastServe
        t == CmdType(s.cmd)
    IN
    /\ (s.res = "ok" /\ t = "reset_interface" /\ s.end # "interrupt") =>
          /\ resets # <<>>
          /\ IF resets[Len(resets)]
             THEN /\ bus = "open"
                  /\ s.end = "" => /\ s.resp.keys = {"status", "message"}
                                   /\ s.resp.status = "success"
             ELSE /\ bus = "closed"
                  /\ s.end = "" => /\ s.resp.keys = {"status", "message"}
                                   /\ s.resp.status = "error"
                                   /\ s.resp.message = "Reset failed: " \o DriverFault
    /\ (spc # "down" /\ resets # <<>>) => (bus = "open" <=> resets[Len(resets)])
    /\ (s.res = "ok" /\ t \in ReadFns \cup WriteFns /\ s.calls # <<>>
           /\ s.busBefore # "open") => ~s.calls[1].ok

\* a read that succeeds after a failed and then a successful reset
C12_Witness ==
    /\ resets = <<FALSE, TRUE>>
    /\ lastServe.res = "ok" /\ CmdType(lastServe.cmd) = "read_byte"
    /\ lastServe.end = "" /\ lastServe.resp.status = "success"
    /\ lastServe.calls[1].ok

\* C13: the server dispatches the commands of one connection at a time: a
\* pass of the loop makes its driver calls for one command of the connection
\* being handled and touches no other connection, and the server turns to
\* another connection only when the handler of the previous one has closed
\* its socket.
C13_OneTransactionAtATime ==
    [][/\ lastServe'.res # "none" =>
              /\ spc = "handle" /\ lastServe'.conn = acc
              /\ lastServe'.end # "interrupt" =>
                     \A c \in 1..MaxConn : c # acc => conn'[c] = conn[c]
              /\ CmdType(lastServe'.cmd) = "scan" =>
                     \A j \in 1..Len(lastServe'.calls) :
                         /\ lastServe'.calls[j].fn = "read_byte"
                         /\ lastServe'.calls[j].address = ScanFirst + j - 1
       /\ (acc' # acc /\ acc > 0) => conn'[acc].sfin]_vars

\* a scan runs while another peer's command waits on its own connection
C13_Witness ==
    /\ lastServe.res = "ok" /\ CmdType(lastServe.cmd) = "scan"
    /\ Len(lastServe.calls) = ScanStop - ScanFirst
    /\ \E c \in 1..MaxConn :
          /\ c # lastServe.conn /\ c <= nconn
          /\ conn[c].c2s # <<>> /\ ~conn[c].cfin /\ ~conn[c].sfin

\* C14: a connection that waits to be accepted is eventually accepted (or
\* reset by the server going down), whatever the client being handled does.
C14_WaitingClientAccepted ==
    \A c \in 1..MaxConn : (c <= nconn /\ acc < c) ~> (acc >= c)

\* C15: every operation that waits for a response ends, and one that ends
\* with a timeout ends as a failure of the send/receive phase that leaves the
\* client without a socket, its connection closed.
C15_OperationTerminates ==
    /\ [](cpc # "idle" => <>(cpc = "idle"))
    /\ [](last.kind = "timeout" =>
             /\ last.phase = "io" /\ sock = NoSocket
             /\ conn[last.conn].cfin)

\* an operation timed out on a connection the server never served
C15_Witness ==
    /\ last.kind = "timeout" /\ last.phase = "io" /\ sock = NoSocket
    /\ last.conn > acc /\ spc = "handle"

\* the connections the client has opened and not closed
OpenSockets == {c \in 1..MaxConn : c <= nconn /\ c # rawSock /\ ~conn[c].cfin}

\* C16: the only socket the client has open is the one it holds, and after
\* an operation that failed to communicate (it could not connect, or an
\* exception was raised while sending or receiving) it holds none.
C16_AtMostOneSocket ==
    /\ OpenSockets \subseteq {sock}
    /\ (last.kind \in {"ConnectionError", "timeout", "OSError", "JSONDecodeError"}
          /\ last.phase \in {"connect", "io"}) => sock = NoSocket

\* the first conjunct of C16 alone
C16_NoSecondSocket == OpenSockets \subseteq {sock}

\* C17: an operation invoked while the client holds no socket connects
\* first and sends its command on the new connection only; when the
\* connection attempt fails it raises ConnectionError naming host and port,
\* and no byte is put on any connection.
C17_ConnectFirst ==
    [][(sock = NoSocket /\ nops' = nops + 1) =>
          IF Listening
          THEN /\ nconn' = nconn + 1 /\ sock' = nconn'
               /\ conn'[sock'].c2s = EncodeCommand(op'.cmd, op'.id)
               /\ \A c \in 1..MaxConn : c # sock' => conn'[c] = conn[c]
          ELSE /\ last'.kind = "ConnectionError" /\ last'.phase = "connect"
               /\ last'.msg = "Cannot connect to 192.168.1.100:8888"
               /\ last'.val = 0 /\ last'.seq = NoData
               /\ conn' = conn /\ nconn' = nconn]_vars

C17_Witness ==
    /\ last.phase = "connect" /\ last.kind = "ConnectionError"
    /\ last.msg = "Cannot connect to 192.168.1.100:8888"
    /\ \A c \in 1..MaxConn : conn[c].c2s = <<>>

\* the payload field an operation returns ("": none)
Payload(fn) ==
    CASE fn \in {"read_byte", "read_byte_data", "read_word_data"} -> "value"
      [] fn = "read_i2c_block_data" -> "data"
      [] fn = "scan" -> "devices"
      [] OTHER -> ""

\* C18: when the response an operation decodes is not status error and
\* lacks the payload field the operation returns, the operation raises
\* KeyError for that field and returns nothing.
C18_MissingPayload ==
    (/\ last.resp # NoResponse /\ ~IsError(last.resp)
     /\ Payload(last.fn) # "" /\ Payload(last.fn) \notin last.resp.keys) =>
        /\ last.kind = "KeyError" /\ last.phase = "api"
        /\ last.msg = KeyErrorText(Payload(last.fn))
        /\ last.val = 0 /\ last.seq = NoData

\* a read_byte that decodes a status success response without a value
C18_Witness ==
    /\ last.fn = "read_byte" /\ last.kind = "KeyError"
    /\ last.resp.keys = {"status"} /\ last.resp.status = "success"

\* C19: the operation fails on the length prefix only when the stream has
\* ended with fewer than 4 bytes left to read.
C19_PrefixReadCompletely ==
    [][(cpc = "recvLen" /\ last'.kind = "ConnectionError"
          /\ last'.msg = "Failed to receive response length") =>
             (conn[sock].sfin /\ Len(conn[sock].s2c) < PrefixLen)]_vars

\* C20: while it receives a body the client takes bytes off the stream in
\* order and never holds the declared length or more undecoded; when the
\* declared length is reached it has taken exactly that many, and it decodes
\* the response whose text they are (JSONDecodeError when they are no such
\* text); a read of nothing at the end of the stream raises ConnectionError.
C20_BodyAccumulated ==
    [][cpc = "recvBody" =>
          LET s == conn[sock].s2c
              all == rxData \o s
          IN
          /\ (cpc' = "recvBody" /\ rxData' # rxData) =>
                 /\ rxLen' = rxLen /\ Len(rxData') < rxLen
                 /\ rxData' \o conn'[sock].s2c = all
          /\ (cpc' = "idle" /\ s # <<>>) =>
                 /\ Len(all) >= rxLen
                 /\ IF ValidBody(Take(all, rxLen))
                    THEN /\ last'.resp = all[1].r
                         /\ sock' = sock => conn'[sock].s2c = Drop(all, rxLen)
                    ELSE last'.kind = "JSONDecodeError"
          /\ (cpc' = "idle" /\ s = <<>> /\ conn[sock].sfin) =>
                 /\ last'.kind = "ConnectionError"
                 /\ last'.msg = "Connection closed while receiving response"
                 /\ last'.resp = NoResponse]_vars

\* a body that arrives in two pieces, the first taken, the second to read,
\* with the next frame already behind it
C20_Witness ==
    /\ cpc = "recvBody" /\ Len(rxData) > 0 /\ Len(rxData) < rxLen
    /\ Len(conn[sock].s2c) > rxLen - Len(rxData)

\* C21: an operation returns normally only on a response of status success.
C21_SuccessOnly ==
    last.kind = "ok" =>
        /\ last.resp # NoResponse
        /\ "status" \in last.resp.keys /\ last.resp.status = "success"

\* C22: what a pass of the loop puts on the wire is one whole frame: four
\* bytes that are the big-endian length of the body, then exactly the body
\* (unless the process is interrupted while it sends).
C22_WholeFrame ==
    [][(lastServe'.res # "none" /\ lastServe'.end # "interrupt"
          /\ conn'[acc].s2c # conn[acc].s2c) =>
             LET old == conn[acc].s2c
                 new == conn'[acc].s2c
                 sent == Drop(new, Len(old))
             IN /\ Take(new, Len(old)) = old
                /\ Len(sent) > PrefixLen
                /\ \A j \in 1..PrefixLen : sent[j].k = "len"
                /\ Unpack32([j \in 1..PrefixLen |-> sent[j].b]) = Len(sent) - PrefixLen
                /\ ValidBody(Drop(sent, PrefixLen))]_vars

\* the same for the passes whose sends take all the bytes handed to them
C22_WholeFrameFullSends ==
    [][(lastServe'.res # "none" /\ lastServe'.end \notin {"interrupt", "short"}
          /\ conn'[acc].s2c # conn[acc].s2c) =>
             LET old == conn[acc].s2c
                 new == conn'[acc].s2c
                 sent == Drop(new, Len(old))
             IN /\ Take(new, Len(old)) = old
                /\ Len(sent) > PrefixLen
                /\ Unpack32([j \in 1..PrefixLen |-> sent[j].b]) = Len(sent) - PrefixLen
                /\ ValidBody(Drop(sent, PrefixLen))]_vars

\* C23: on the socket it holds the client has at most one command whose
\* response it has not read to the end, none between operations, and so
\* none when an operation starts on a socket it already holds.
C23_SingleOutstanding ==
    /\ unread \in {0, 1}
    /\ cpc = "idle" => unread = 0
    /\ cpc # "idle" => unread = 1

\* an operation has sent its command on a socket an earlier one left open
C23_Witness ==
    /\ cpc = "recvLen" /\ ~op.fresh /\ op.id > 1 /\ sock > 0 /\ unread = 1
    /\ ~conn[sock].cfin

\* C24: the server listens only after it has opened the bus: going up opens
\* the handle in the same step, before any connection is accepted; while no
\* handle was ever opened nothing connects and nothing is accepted; and
\* every command is dispatched on a handle that was opened (it is closed
\* only after a reset_interface that failed to reopen it).
C24_BusOpenedFirst ==
    /\ [][(spc = "down" /\ spc' # "down") =>
             (bus' = "open" /\ spc' = "accept" /\ acc' = acc /\ resets' = <<>>)]_vars
    /\ [](bus = "none" => (spc = "down" /\ acc = 0 /\ nconn = 0))
    /\ []((Listening /\ resets = <<>>) => bus = "open")
    /\ [](lastServe.res # "none" => lastServe.busBefore \in {"open", "closed"})

\* the first command of a server process, dispatched on the handle opened
\* at startup
C24_Witness ==
    /\ lastServe.res = "ok" /\ lastServe.busBefore = "open" /\ resets = <<>>
    /\ lastServe.calls # <<>> /\ lastServe.calls[1].ok

\* C25: the bus handle changes only when the server starts, when it shuts
\* down, or in a pass that dispatched a reset_interface command: every other
\* command, the Invalid JSON path, accepting a client and the end of a
\* session leave it as it was.
C25_HandleChangedOnlyByReset ==
    [][bus' # bus =>
         \/ spc = "down"
         \/ spc' = "down"
         \/ /\ lastServe'.res = "ok"
            /\ CmdType(lastServe'.cmd) = "reset_interface"]_vars

\* the second session of a server process is served by the handle opened at
\* startup, after the first session was closed
C25_Witness ==
    /\ lastServe.conn = 2 /\ lastServe.res = "ok" /\ resets = <<>>
    /\ lastServe.calls # <<>> /\ lastServe.calls[1].ok
    /\ lastServe.busBefore = "open" /\ conn[1].sfin

\* C26: reset_interface puts exactly one reset_interface command on its
\* connection; when the response it decodes has status success it returns
\* normally with the message of that response, and when it has status error
\* it raises RuntimeError with the message of that response.
C26_ResetInterfaceResult ==
    /\ [](last.fn = "reset_interface" /\ last.resp # NoResponse
           /\ "status" \in last.resp.keys /\ "message" \in last.resp.keys =>
             /\ last.resp.status = "success" =>
                   last.kind = "ok" /\ last.msg = last.resp.message
             /\ last.resp.status = "error" =>
                   last.kind = "RuntimeError" /\ last.msg = last.resp.message)
    /\ [][(cpc = "idle" /\ cpc' = "recvLen" /\ op'.fn = "reset_interface") =>
             LET before == IF sock > 0 THEN conn[sock].c2s ELSE <<>>
                 sent == SubSeq(conn'[sock'].c2s, Len(before) + 1,
                                Len(conn'[sock'].c2s))
             IN \/ sock > 0 /\ conn[sock].sfin /\ conn' = conn
                \/ /\ Len(sent) = 1 /\ sent[1].k = "cmd" /\ sent[1].n = 1
                   /\ sent[1].id = op'.id
                   /\ CmdType(sent[1].cmd) = "reset_interface"]_vars

\* a reset_interface that returned the message of the server's success
C26_Witness ==
    /\ last.fn = "reset_interface" /\ last.kind = "ok"
    /\ last.resp # NoResponse /\ last.resp.re = last.id
    /\ last.msg = "I2C interface reset" /\ bus = "open"

\* the first units, still unread by the server, of the commands operation id sent
InFlightIn(cn, id) ==
    UNION { {<<c, j>> : j \in {j \in 1..Len(cn[c].c2s) :
                                  /\ cn[c].c2s[j].k = "cmd"
                                  /\ cn[c].c2s[j].id = id
                                  /\ cn[c].c2s[j].i = 1}} : c \in 1..MaxConn }

InFlight(id) == InFlightIn(conn, id)

\* C27: an operation connects at most once and transmits its command at most
\* once.  Connections are opened and bytes are put on a connection only by
\* the step that invokes an operation: it opens at most one connection and
\* appends the text of its command exactly once, to one connection; no later
\* step of the operation, whatever it reads or fails with, sends again.  So
\* of every operation at most one command is on its way to the server, and
\* a command the server dispatches is taken off the wire by that pass.
C27_NoRetry ==
    /\ [](\A id \in 1..MaxStaleOps : Cardinality(InFlight(id)) <= 1)
    /\ [][/\ nconn' <= nconn + 1
          /\ nconn' # nconn => (cpc = "idle" /\ nops' = nops + 1)
          /\ \A c \in 1..MaxConn :
                Len(conn'[c].c2s) > Len(conn[c].c2s) =>
                   /\ cpc = "idle" /\ cpc' = "recvLen" /\ nops' = nops + 1
                   /\ c = sock' /\ op'.id = nops'
                   /\ conn'[c].c2s =
                         conn[c].c2s \o [j \in 1..CmdUnits(op'.cmd) |->
                                           CmdUnit(op'.cmd, j, CmdUnits(op'.cmd), op'.id)]
                   /\ \A d \in 1..MaxConn \ {c} : conn'[d].c2s = conn[d].c2s
          /\ (lastServe'.res = "ok" /\ lastServe'.id > 0) =>
                /\ Cardinality(InFlightIn(conn, lastServe'.id)) = 1
                /\ InFlightIn(conn', lastServe'.id) = {}]_vars

\* an operation that opened a connection, sent its command and failed: the
\* command is on that connection once, and nothing else was opened or sent
C27_Witness ==
    /\ last.kind \notin {"ok", "none"} /\ last.phase = "io" /\ last.fresh
    /\ last.conn = nconn /\ last.after = NoSocket
    /\ InFlight(last.id) = {<<last.conn, 1>>}
    /\ Len(conn[last.conn].c2s) = CmdUnits(last.cmd)

\* C28: a pass that dispatches scan makes one read_byte probe of every
\* address from ScanFirst to ScanStop - 1, in ascending order, however many
\* of them fault, and no other driver call; the response it builds has status
\* success; its devices list is empty when every probe faulted, as every
\* probe does on a handle that a failed reset left closed.
C28_ScanNeverAborts ==
    (lastServe.res = "ok" /\ CmdType(lastServe.cmd) = "scan") =>
        LET calls == lastServe.calls IN
        /\ Len(calls) = ScanStop - ScanFirst
        /\ \A j \in 1..Len(calls) :
              /\ calls[j].fn = "read_byte"
              /\ calls[j].address = ScanFirst + j - 1
        /\ lastServe.busBefore = "closed" => \A j \in 1..Len(calls) : ~calls[j].ok
        /\ lastServe.resp # NoResponse =>
              /\ lastServe.resp.status = "success"
              /\ "message" \notin lastServe.resp.keys
              /\ (\A j \in 1..Len(calls) : ~calls[j].ok) =>
                    lastServe.resp.devices = <<>>

\* a scan on the handle a failed reset left closed: every probe was made and
\* faulted, and the answer is success with no devices
C28_Witness ==
    /\ lastServe.res = "ok" /\ CmdType(lastServe.cmd) = "scan"
    /\ lastServe.busBefore = "closed" /\ resets # <<>>
    /\ Len(lastServe.calls) = ScanStop - ScanFirst
    /\ lastServe.resp # NoResponse /\ lastServe.resp.status = "success"
    /\ lastServe.resp.devices = <<>>

\* C29: a write operation that returns normally was answered for its own
\* command, the server made the driver write call of that variant with the
\* address, register, value and data the caller passed, the call succeeded,
\* and the response holds the status only.
C29_WriteExecutedOnce ==
    (last.kind = "ok" /\ last.fn \in WriteFns) =>
        LET r == last.resp
            call == r.call
        IN /\ r # NoResponse /\ r.re = last.id
           /\ r.keys = {"status"} /\ r.status = "success"
           /\ call.ok /\ call.fn = last.fn
           /\ call.address = last.cmd.address
           /\ call.register = last.cmd.register
           /\ call.value = last.cmd.value
           /\ call.data = last.cmd.data

\* C29, for the passes of the server: a write command that is dispatched
\* makes exactly one driver call, with the command's arguments, and is
\* answered success, without value or data, exactly when the call succeeded.
C29_WriteDispatchedOnce ==
    (lastServe.res = "ok" /\ CmdType(lastServe.cmd) \in WriteFns
        /\ Required(CmdType(lastServe.cmd)) \subseteq lastServe.cmd.keys) =>
        LET calls == lastServe.calls
            c == lastServe.cmd
        IN /\ Len(calls) = 1
           /\ calls[1].fn = c.type /\ calls[1].address = c.address
           /\ calls[1].register = c.register /\ calls[1].value = c.value
           /\ calls[1].data = c.data
           /\ lastServe.resp # NoResponse =>
                 /\ calls[1].ok <=> lastServe.resp.status = "success"
                 /\ calls[1].ok => lastServe.resp.keys = {"status"}

\* C30: a session ends only with its socket closed by the server, and unless
\* the server process is stopped the server is then back in accept(); a pass
\* that ends with a socket error does so too and never brings the server
\* down.  Once the first session has ended, the client that has connected
\* next and sent a command is accepted and served (or the server is stopped
\* first).
C30_SessionEndReturnsToAccept ==
    /\ [][/\ (spc = "handle" /\ spc' # "handle") =>
                /\ conn'[acc].sfin
                /\ spc' = "down" \/ (spc' = "accept" /\ acc' = acc)
          /\ lastServe'.end \in {"send", "decode"} =>
                /\ spc' = "accept" /\ conn'[lastServe'.conn].sfin
                /\ acc' = acc]_vars
    /\ (spc = "accept" /\ acc = 1 /\ conn[1].sfin /\ nconn > 1
            /\ conn[2].c2s # <<>>)
         ~> (lastServe.conn = 2 \/ spc = "down")

\* a session has just ended with a socket error: its socket is closed, the
\* server is in accept(), and the next client waits with its command
C30_Witness ==
    /\ lastServe.end = "send" /\ lastServe.conn = 1
    /\ spc = "accept" /\ acc = 1 /\ conn[1].sfin
    /\ nconn > 1 /\ conn[2].c2s # <<>> /\ ~conn[2].sfin

\* C31: while the handle is the closed one a failed reset_interface left, a
\* pass that dispatches a read or write command makes no successful driver
\* call, leaves the handle as it is and answers status error with a message;
\* the session goes on (the server is in its receive loop, the socket open,
\* the whole response on the wire), and it ends in that pass only when the
\* send fails because the client has closed.
C31_ServesOnUnusableHandle ==
    LET s == lastServe
        t == CmdType(s.cmd)
    IN
    (s.res = "ok" /\ t \in ReadFns \cup WriteFns /\ s.busBefore = "closed"
        /\ s.end # "interrupt") =>
        /\ resets # <<>> /\ ~resets[Len(resets)]
        /\ bus = "closed"
        /\ \A j \in 1..Len(s.calls) : ~s.calls[j].ok
        /\ s.end \in {"", "send"}
        /\ s.end = "send" => conn[s.conn].cfin /\ spc = "accept"
        /\ s.end = "" =>
              /\ s.resp.keys = {"status", "message"} /\ s.resp.status = "error"
              /\ s.resp.message # ""
              /\ spc = "handle" /\ acc = s.conn /\ ~conn[s.conn].sfin
              /\ ~conn[s.conn].cfin =>
                    /\ Len(conn[s.conn].s2c) >= PrefixLen + BodyUnits
                    /\ conn[s.conn].s2c[Len(conn[s.conn].s2c)].r = s.resp

\* the read of a later session is answered status error on the handle the
\* failed reset of the first session left closed
C31_Witness ==
    /\ resets = <<FALSE>> /\ bus = "closed" /\ spc = "handle"
    /\ lastServe.res = "ok" /\ CmdType(lastServe.cmd) = "read_byte"
    /\ lastServe.id > 1 /\ lastServe.end = ""
    /\ lastServe.resp.status = "error" /\ lastServe.resp.message = DriverFault
    /\ ~conn[acc].cfin /\ ~conn[acc].sfin

\* C32: after close() the client holds no socket and the connection it held
\* is closed; a close() that follows a close() changes nothing; and the
\* operation invoked next connects anew and sends its command on the new
\* connection (or fails to connect when no server listens).
C32_CloseIdempotent ==
    /\ [](last.fn = "close" =>
             /\ sock = NoSocket /\ unread = 0 /\ cpc = "idle"
             /\ last.kind = "none"
             /\ last.conn > 0 => conn[last.conn].cfin)
    /\ [][/\ (last.fn = "close" /\ last'.fn = "close") =>
                /\ last'.conn = NoSocket
                /\ UNCHANGED <<conn, nconn, prevFail, clientVars, serverVars, rawVars>>
          /\ (last.fn = "close" /\ nops' = nops + 1) =>
                IF Listening
                THEN /\ nconn' = nconn + 1 /\ sock' = nconn'
                     /\ cpc' = "recvLen" /\ op'.fresh /\ unread' = 1
                     /\ conn'[sock'].c2s = EncodeCommand(op'.cmd, op'.id)
                     /\ ~conn'[sock'].cfin
                ELSE /\ last'.kind = "ConnectionError"
                     /\ last'.phase = "connect"]_vars

\* an operation returned normally and kept its socket, close() closed it, and
\* the next operation returned normally on a connection of its own
C32_Witness ==
    /\ last.kind = "ok" /\ last.id = 2 /\ last.prev = "" /\ last.fresh
    /\ last.conn = 2 /\ sock = 2 /\ conn[1].cfin /\ ~conn[2].cfin
    /\ last.resp.re = last.id

\* the command a handler method has just made the client send: the one of
\* the operation in progress, or of the operation that failed at once
Forwarded == IF cpc' = "idle" THEN [fn |-> last'.fn, cmd |-> last'.cmd]
             ELSE [fn |-> op'.fn, cmd |-> op'.cmd]

\* C33: current_address is 0 until an ioctl sets it; an I2C_SLAVE or
\* I2C_SLAVE_FORCE ioctl sets it to its argument and nothing else changes
\* it; I2C_TENBIT and unknown requests return -ENOTTY; no ioctl calls the
\* client.  handle_read of length 1 sends one read_byte command, and
\* handle_write of one or two bytes one write_byte or write_byte_data
\* command, for current_address; with any other length they raise
\* NotImplementedError and the client sends nothing.
C33_HandlerTargetsCurrentAddress ==
    /\ [](hlast.n = 0 => current_address = 0)
    /\ [][LET h == hlast'
              slave == h.call = "ioctl" /\ h.request \in {I2C_SLAVE, I2C_SLAVE_FORCE}
          IN
          /\ hlast' = hlast => current_address' = current_address
          /\ hlast' # hlast =>
                /\ h.n = hlast.n + 1
                /\ current_address' = IF slave THEN h.arg ELSE current_address
                /\ h.call = "ioctl" =>
                      /\ h.request \in {I2C_SLAVE, I2C_SLAVE_FORCE} => h.ret = 0
                      /\ h.request \notin {I2C_SLAVE, I2C_SLAVE_FORCE, I2C_FUNCS} =>
                            h.ret = 0 - ENOTTY
                      /\ UNCHANGED <<clientVars, conn, nconn>>
                /\ (h.call = "read" /\ h.len = 1) =>
                      /\ nops' = nops + 1 /\ h.sent = nops'
                      /\ Forwarded.fn = "read_byte"
                      /\ Forwarded.cmd.type = "read_byte"
                      /\ Forwarded.cmd.address = current_address
                /\ (h.call = "write" /\ h.len \in {1, 2}) =>
                      /\ nops' = nops + 1 /\ h.sent = nops'
                      /\ Forwarded.fn = IF h.len = 1 THEN "write_byte"
                                        ELSE "write_byte_data"
                      /\ Forwarded.cmd.type = Forwarded.fn
                      /\ Forwarded.cmd.address = current_address
                /\ (h.sent > 0 /\ cpc' = "recvLen" /\ ~conn'[sock'].sfin) =>
                      LET q == conn'[sock'].c2s IN
                      /\ q[Len(q)].cmd = Forwarded.cmd /\ q[Len(q)].id = h.sent
                      /\ Len(q) = (IF sock' = sock THEN Len(conn[sock].c2s) ELSE 0) + 1
                /\ ((h.call = "read" /\ h.len # 1)
                       \/ (h.call = "write" /\ h.len \notin {1, 2})) =>
                      /\ h.raised = "NotImplementedError" /\ h.sent = 0
                      /\ UNCHANGED <<clientVars, conn, nconn>>]_vars

\* handle_read has sent a read_byte for the address an ioctl set, and the
\* command is on the wire
C33_Witness ==
    /\ hlast.call = "read" /\ hlast.n >= 2 /\ hlast.sent = op.id
    /\ cpc = "recvLen" /\ op.fn = "read_byte"
    /\ current_address = 96 /\ op.cmd.address = 96
    /\ sock > 0 /\ conn[sock].c2s # <<>>
    /\ conn[sock].c2s[Len(conn[sock].c2s)].cmd.address = 96

====
